---- MODULE Spec2Model ----
(***************************************************************************)
(* Model of src/app.py: the OCR text -> lab-record extraction helpers     *)
(* (normalize_spaces, parse_normal_lines, parse_two_streams,              *)
(* regex_fallback_table, style_out_of_range, extract_json_block) and the  *)
(* button handler that chooses between the JSON path and the regex path.  *)
(*                                                                         *)
(* A text is a sequence of characters; a character is a one-character     *)
(* string, except that a non-ASCII code point is written "Uxxxx".         *)
(* Regular expressions are abstract syntax trees matched by a             *)
(* backtracking matcher with the priorities of Python's re module.        *)
(***************************************************************************)
EXTENDS Integers, Sequences, FiniteSets, TLC

(***************************************************************************)
(* Characters                                                              *)
(***************************************************************************)
Digits == {"0", "1", "2", "3", "4", "5", "6", "7", "8", "9"}

LowerLetters ==
  {"a", "b", "c", "d", "e", "f", "g", "h", "i", "j", "k", "l", "m",
   "n", "o", "p", "q", "r", "s", "t", "u", "v", "w", "x", "y", "z"}

UpperLetters ==
  {"A", "B", "C", "D", "E", "F", "G", "H", "I", "J", "K", "L", "M",
   "N", "O", "P", "Q", "R", "S", "T", "U", "V", "W", "X", "Y", "Z"}

Letters == LowerLetters \cup UpperLetters

\* what \s matches and str.strip() strips, among the characters modelled
Whitespace == {" ", "\n", "\t"}

Punctuation ==
  {"(", ")", "-", "~", ".", ",", "/", "%", "^", "+", "*", "<", ">",
   "{", "}", "[", "]", ":", "\"", "_"}

\* U2013 en dash, U2014 em dash; U201A U00C4 U00EC / U201A U00C4 U00EE are
\* the three code points of the two dash literals as the source file spells
\* them; U2248 U00E6 are the two code points after "a" in the connective.
\* U2260 (not-equal sign) stands for the code points above U2248.
NonAscii ==
  {"U2013", "U2014", "U201A", "U00C4", "U00EC", "U00EE", "U2248", "U00E6", "U2260",
   "U221A", "U03A9"}

\* the non-ASCII code points that are letters (members of \w)
NonAsciiLetters == {"U00C4", "U00EC", "U00EE", "U00E6", "U03A9"}

\* the non-ASCII code points from U+00B0 to U+2248
NonAsciiUpTo2248 == NonAscii \ {"U2260"}

Universe == Digits \cup Letters \cup Whitespace \cup Punctuation \cup NonAscii

WordChars == Digits \cup Letters \cup NonAsciiLetters \cup {"_"}

\* the two dash literals and the connective, as the source spells them
EnDashLiteral == <<"U201A", "U00C4", "U00EC">>
EmDashLiteral == <<"U201A", "U00C4", "U00EE">>
ConnectiveLiteral == <<" ", "a", "U2248", "U00E6", " ">>

(***************************************************************************)
(* Sequence helpers (str methods)                                          *)
(***************************************************************************)
Min2(a, b) == IF a <= b THEN a ELSE b

\* s[a..b-1] in Python's terms, with 1-based a and exclusive b
Slice(s, a, b) == IF b <= a THEN <<>> ELSE SubSeq(s, a, b - 1)

StartsWithAt(s, i, lit) ==
  /\ i + Len(lit) - 1 <= Len(s)
  /\ \A j \in 1..Len(lit) : s[i + j - 1] = lit[j]

\* the least and the greatest member of a non-empty set of integers
Least(S) == CHOOSE p \in S : \A q \in S : p <= q
Greatest(S) == CHOOSE p \in S : \A q \in S : q <= p

\* str.replace(old, new): left to right, non-overlapping
RECURSIVE ReplaceFrom(_, _, _, _)
ReplaceFrom(s, i, old, new) ==
  LET occ == {p \in i..Len(s) : StartsWithAt(s, p, old)}
  IN IF occ = {} THEN Slice(s, i, Len(s) + 1)
     ELSE Slice(s, i, Least(occ)) \o new \o ReplaceFrom(s, Least(occ) + Len(old), old, new)

Replace(s, old, new) == ReplaceFrom(s, 1, old, new)

\* str.strip()
Strip(s) ==
  LET keep == {p \in 1..Len(s) : s[p] \notin Whitespace}
  IN IF keep = {} THEN <<>> ELSE SubSeq(s, Least(keep), Greatest(keep))

\* str.split("\n")
RECURSIVE SplitLinesFrom(_, _)
SplitLinesFrom(s, i) ==
  LET nl == {p \in i..Len(s) : s[p] = "\n"}
  IN IF nl = {} THEN <<Slice(s, i, Len(s) + 1)>>
     ELSE <<Slice(s, i, Least(nl))>> \o SplitLinesFrom(s, Least(nl) + 1)

SplitLines(s) == SplitLinesFrom(s, 1)

\* " ".join(parts)
RECURSIVE JoinSpace(_)
JoinSpace(parts) ==
  IF parts = <<>> THEN <<>>
  ELSE IF Len(parts) = 1 THEN parts[1]
       ELSE parts[1] \o <<" ">> \o JoinSpace(Tail(parts))

(***************************************************************************)
(* Regular expressions: syntax                                             *)
(***************************************************************************)
Cls(cs) == [t |-> "cls", cs |-> cs]
NotCls(cs) == [t |-> "cls", cs |-> Universe \ cs]
Lit(c) == [t |-> "cls", cs |-> {c}]
Cat(xs) == [t |-> "cat", xs |-> xs]
Alt(xs) == [t |-> "alt", xs |-> xs]
\* x{lo,hi}, or x{lo,} when capped is FALSE; last is the position at which the
\* previous iteration began (0 before the first)
Rep(x, lo, hi, capped, greedy) ==
  [t |-> "rep", x |-> x, min |-> lo, max |-> hi, capped |-> capped,
   greedy |-> greedy, last |-> 0]
Star(x) == Rep(x, 0, 0, FALSE, TRUE)
Plus(x) == Rep(x, 1, 0, FALSE, TRUE)
Opt(x) == Rep(x, 0, 1, TRUE, TRUE)
Exactly(x, n) == Rep(x, n, n, TRUE, TRUE)
LazyStar(x) == Rep(x, 0, 0, FALSE, FALSE)
LazyPlus(x) == Rep(x, 1, 0, FALSE, FALSE)
Grp(n, x) == [t |-> "grp", n |-> n, x |-> x]
Ahead(x) == [t |-> "ahead", x |-> x]
EndOfString == [t |-> "eos"]
WordBoundary == [t |-> "wb"]

(***************************************************************************)
(* Regular expressions: matching with the priorities of a backtracking     *)
(* matcher.  A backtracking matcher takes, at every choice, the first      *)
(* alternative after which the rest of the pattern can still match.        *)
(* Feasible computes "the rest can still match" as a table over the        *)
(* positions of the text; Walk then follows the choices and records the    *)
(* groups.  A repeat of anything but one character class is x? or x*.      *)
(***************************************************************************)
NoSpan == <<0, 0>>
NoMatch == [ok |-> FALSE, start |-> 0, end |-> 0, caps |-> <<>>]

Positions(s) == 1..(Len(s) + 1)

\* a table over the positions of a string, written out as a sequence
Table(f) == f \o <<>>

AllTrue(s) == Table([p \in Positions(s) |-> TRUE])

IsWordAt(s, i) == i >= 1 /\ i <= Len(s) /\ s[i] \in WordChars

\* `$` without re.MULTILINE: the end, or just before a final newline
AtEnd(s, i) == i = Len(s) + 1 \/ (i = Len(s) /\ s[i] = "\n")

\* the positions of s at which a run of characters of cs must stop
Stops(s, cs) == {p \in Positions(s) : p = Len(s) + 1 \/ s[p] \notin cs}

\* the length of the longest run that starts at position i, given the stops
RunFrom(stops, i) == Least({p \in stops : p >= i}) - i

\* the length of the longest run of characters of cs that starts at s[i]
RunLength(s, i, cs) == IF i > Len(s) THEN 0 ELSE RunFrom(Stops(s, cs), i)

\* the most characters a repeat x of one character class can take at
\* position i
MostFrom(x, stops, i) ==
  IF x.capped THEN Min2(RunFrom(stops, i), x.max) ELSE RunFrom(stops, i)

\* what follows the body of x? or x* begun at position p: another round (T) if
\* the body moved on from p, and what follows the repeat (F) if it did not
AfterBody(x, T, F, p) == IF x.capped THEN F ELSE [T EXCEPT ![p] = F[p]]

RECURSIVE Feasible(_, _, _)
RECURSIVE SuffixTables(_, _, _, _)
RECURSIVE StarTable(_, _, _, _)

\* Feasible(x, s, F)[p]: x can match from position p of s and end at a position
\* q with F[q], F being the table of what follows x
Feasible(x, s, F) ==
  CASE x.t = "cls" ->
         Table([p \in Positions(s) |-> p <= Len(s) /\ s[p] \in x.cs /\ F[p + 1]])
    [] x.t = "rep" /\ x.x.t = "cls" ->
         LET stops == Stops(s, x.x.cs)
         IN Table([p \in Positions(s) |-> \E c \in x.min..MostFrom(x, stops, p) : F[p + c]])
    [] x.t = "rep" /\ x.x.t # "cls" /\ x.capped ->
         LET B == Feasible(x.x, s, F) IN Table([p \in Positions(s) |-> B[p] \/ F[p]])
    [] x.t = "rep" /\ x.x.t # "cls" /\ ~x.capped -> StarTable(x, s, F, F)
    [] x.t = "cat" -> SuffixTables(x.xs, Len(x.xs), s, <<F>>)[1]
    [] x.t = "alt" ->
         LET ts == Table([j \in 1..Len(x.xs) |-> Feasible(x.xs[j], s, F)])
         IN Table([p \in Positions(s) |-> \E j \in 1..Len(x.xs) : ts[j][p]])
    [] x.t = "grp" -> Feasible(x.x, s, F)
    [] x.t = "ahead" ->
         LET A == Feasible(x.x, s, AllTrue(s))
         IN Table([p \in Positions(s) |-> A[p] /\ F[p]])
    [] x.t = "eos" -> Table([p \in Positions(s) |-> AtEnd(s, p) /\ F[p]])
    [] x.t = "wb" ->
         Table([p \in Positions(s) |-> IsWordAt(s, p - 1) # IsWordAt(s, p) /\ F[p]])

\* the tables of xs[j..] followed by F, for j from 1 to Len(xs) + 1, built from
\* the right: acc holds those for j > k
SuffixTables(xs, k, s, acc) ==
  IF k = 0 \/ Len(acc) # Len(xs) - k + 1 THEN acc
  ELSE SuffixTables(xs, k - 1, s, <<Feasible(xs[k], s, acc[1])>> \o acc)

\* x*: the least table T with T[p] = F[p] \/ (the body, then T)
StarTable(x, s, F, T) ==
  LET B == Feasible(x.x, s, T)
      T2 == Table([p \in Positions(s) |-> F[p] \/ B[p]])
  IN IF T2 = T THEN T ELSE StarTable(x, s, F, T2)

\* the count a repeat of one character class settles on, of the counts after
\* which the rest can match: the most if it is greedy, the fewest if lazy
Preferred(x, good) == IF x.greedy THEN Greatest(good) ELSE Least(good)

RECURSIVE Walk(_, _, _, _, _)
RECURSIVE WalkSeq(_, _, _, _, _, _)
RECURSIVE WalkRepeat(_, _, _, _, _, _)

\* Walk(x, s, p, F, caps): the end and the groups of the match of x at p that a
\* backtracking matcher settles on, given Feasible(x, s, F)[p]
Walk(x, s, p, F, caps) ==
  CASE x.t = "cls" -> [end |-> p + 1, caps |-> caps]
    [] x.t = "rep" /\ x.x.t = "cls" ->
         [end |-> p + Preferred(x, {c \in x.min..MostFrom(x, Stops(s, x.x.cs), p) : F[p + c]}),
          caps |-> caps]
    [] x.t = "rep" /\ x.x.t # "cls" -> WalkRepeat(x, s, p, F, Feasible(x, s, F), caps)
    [] x.t = "cat" -> WalkSeq(x.xs, SuffixTables(x.xs, Len(x.xs), s, <<F>>), 1, s, p, caps)
    [] x.t = "alt" ->
         Walk(x.xs[Least({n \in 1..Len(x.xs) : Feasible(x.xs[n], s, F)[p]})], s, p, F, caps)
    [] x.t = "grp" ->
         LET r == Walk(x.x, s, p, F, caps)
         IN [end |-> r.end, caps |-> [r.caps EXCEPT ![x.n] = <<p, r.end>>]]
    [] x.t \in {"ahead", "eos", "wb"} -> [end |-> p, caps |-> caps]

\* x? or x* at p, T being Feasible(x, s, F): a greedy repeat goes round once
\* more whenever the body can be followed by a match, a lazy one only when
\* what follows the repeat cannot match here; a round that does not move on
\* from p is the last
WalkRepeat(x, s, p, F, T, caps) ==
  LET C == AfterBody(x, T, F, p)
      canIter == Feasible(x.x, s, C)[p]
      body == Walk(x.x, s, p, C, caps)
  IN IF (x.greedy /\ ~canIter) \/ (~x.greedy /\ F[p]) THEN [end |-> p, caps |-> caps]
     ELSE IF x.capped \/ body.end = p THEN body
     ELSE WalkRepeat(x, s, body.end, F, T, body.caps)

\* the parts of a sequence one after the other, each from the end of the one
\* before it (a part never ends before it begins)
WalkSeq(xs, tabs, k, s, p, caps) ==
  IF k > Len(xs) THEN [end |-> p, caps |-> caps]
  ELSE LET r == Walk(xs[k], s, p, tabs[k + 1], caps)
       IN IF r.end >= p THEN WalkSeq(xs, tabs, k + 1, s, r.end, r.caps) ELSE r

\* the positions at which pattern.match succeeds
MatchTable(re, s) == Feasible(re, s, AllTrue(s))

\* the match object for the outcome r of a walk from p
Matched(p, r) == [ok |-> TRUE, start |-> p, end |-> r.end, caps |-> r.caps]

\* the match at position p, given that there is one
MatchAt(re, s, p, caps0) == Matched(p, Walk(re, s, p, AllTrue(s), caps0))

\* pattern.search from position i: the leftmost position with a match
SearchFrom(re, s, M, i, caps0) ==
  LET hits == {p \in i..(Len(s) + 1) : M[p]}
  IN IF hits = {} THEN NoMatch ELSE MatchAt(re, s, Least(hits), caps0)

\* pattern.finditer: successive non-overlapping matches, left to right; after
\* an empty match the scan moves on by one character
RECURSIVE FindIterFrom(_, _, _, _, _)
RECURSIVE FindIterAfter(_, _, _, _, _)
FindIterFrom(re, s, M, i, caps0) == FindIterAfter(re, s, M, SearchFrom(re, s, M, i, caps0), caps0)

\* the match m, if it is one, and the matches after it
FindIterAfter(re, s, M, m, caps0) ==
  IF ~m.ok THEN <<>>
  ELSE <<m>> \o FindIterFrom(re, s, M, IF m.end > m.start THEN m.end ELSE m.end + 1, caps0)

\* the member of a set of one member
Only(S) == CHOOSE v \in S : TRUE

\* (the table of match positions is worked out once and named M)
FindIter(re, s, caps0) ==
  Only({FindIterFrom(re, s, M, 1, caps0) : M \in {MatchTable(re, s)}})

Search(re, s, caps0) ==
  Only({SearchFrom(re, s, M, 1, caps0) : M \in {MatchTable(re, s)}})

\* m.group(n) or ""
GroupOrEmpty(s, m, n) == Slice(s, m.caps[n][1], m.caps[n][2])

\* re.sub(pattern, repl, s) for a pattern that matches no empty string
RECURSIVE SubBuild(_, _, _, _, _)
SubBuild(s, ms, j, pos, repl) ==
  IF j > Len(ms) THEN Slice(s, pos, Len(s) + 1)
  ELSE Slice(s, pos, ms[j].start) \o repl \o SubBuild(s, ms, j + 1, ms[j].end, repl)

Sub(re, repl, s) == SubBuild(s, FindIter(re, s, <<>>), 1, 1, repl)

(***************************************************************************)
(* normalize_spaces                                                        *)
(***************************************************************************)
WsRun == Plus(Cls(Whitespace))

\* normalize_spaces with its two steps the other way round: the separators
\* are joined to the text before them first, the whitespace collapsed after
normalize_spaces_swapped(s) ==
  Strip(Sub(WsRun, <<" ">>, Replace(Replace(s, <<" ", ",">>, <<",">>), <<" ", ".">>, <<".">>)))

normalize_spaces(s) ==
  LET s1 == Sub(WsRun, <<" ">>, s)
      s2 == Replace(Replace(s1, <<" ", ",">>, <<",">>), <<" ", ".">>, <<".">>)
  IN Strip(s2)

(***************************************************************************)
(* The reference range inside the parentheses                              *)
(***************************************************************************)
DashWithSpaces == Cat(<<Star(Cls(Whitespace)), Lit("-"), Star(Cls(Whitespace))>>)

\* rng.replace("~", "-").replace(<en dash literal>, "-").replace(<em dash literal>, "-")
\* followed by re.sub(r"\s*-\s*", "-", rng)
UnifyDashes(rng) ==
  LET r1 == Replace(rng, <<"~">>, <<"-">>)
      r2 == Replace(r1, EnDashLiteral, <<"-">>)
      r3 == Replace(r2, EmDashLiteral, <<"-">>)
  IN Sub(DashWithSpaces, <<"-">>, r3)

\* re.split(r"-|<connective>", rng)
RECURSIVE SplitRangeFrom(_, _)
SplitRangeFrom(s, i) ==
  LET seps == {p \in i..Len(s) : s[p] = "-" \/ StartsWithAt(s, p, ConnectiveLiteral)}
      at == Least(seps)
  IN IF seps = {} THEN <<Slice(s, i, Len(s) + 1)>>
     ELSE <<Slice(s, i, at)>>
          \o SplitRangeFrom(s, at + (IF s[at] = "-" THEN 1 ELSE Len(ConnectiveLiteral)))

SplitRange(s) == SplitRangeFrom(s, 1)

\* <<rmin, rmax>> of a range rng, its dashes unified; when it is of one
\* part, parse_normal_lines strips it once more and parse_two_streams does not
MinMax(rng, strip) ==
  LET parts == SplitRange(rng)
  IN IF rng = <<>> THEN <<<<>>, <<>>>>
     ELSE IF Len(parts) >= 2 THEN <<Strip(parts[1]), Strip(parts[2])>>
     ELSE <<IF strip THEN Strip(rng) ELSE rng, <<>>>>

\* parse_normal_lines, the range of one match: <<rmin, rmax>>
RangeOfLine(raw) == MinMax(UnifyDashes(Strip(raw)), TRUE)

\* parse_two_streams, the range of one value: <<rmin, rmax>>
RangeOfValue(raw) == MinMax(UnifyDashes(Strip(raw)), FALSE)

(***************************************************************************)
(* parse_normal_lines                                                      *)
(***************************************************************************)
CodeLen == 5

\* [A-Za-z<non-ASCII ranges>\.\-\s]: the ranges, as the source file spells
\* them, run from U+00B0 to U+2248
NameClass == Cls(Letters \cup NonAsciiUpTo2248 \cup {".", "-"} \cup Whitespace)

CodeRe == Exactly(Cls(Digits), CodeLen)

ParenRange(n) == Opt(Cat(<<Lit("("), Grp(n, Plus(NotCls({")"}))), Lit(")")>>))

LinePattern ==
  Cat(<<Grp("code", CodeRe),
        Plus(Cls(Whitespace)),
        Grp("name", LazyPlus(NameClass)),
        Plus(Cls(Whitespace)),
        Grp("result", LazyPlus(NotCls({"(", ")", "\n"}))),
        Star(Cls(Whitespace)),
        ParenRange("range"),
        Ahead(Alt(<<Lit("\n"), EndOfString>>))>>)

LineCaps == [code |-> NoSpan, name |-> NoSpan, result |-> NoSpan, range |-> NoSpan]

\* the matches pattern.finditer(text) yields
LineMatches(text) == FindIter(LinePattern, text, LineCaps)

\* [code, name, result, rmin, rmax], r being <<rmin, rmax>>
Record(code, name, result, r) == <<code, name, result, r[1], r[2]>>

LineRecord(text, m) ==
  Record(Strip(GroupOrEmpty(text, m, "code")),
         normalize_spaces(GroupOrEmpty(text, m, "name")),
         normalize_spaces(GroupOrEmpty(text, m, "result")),
         RangeOfLine(GroupOrEmpty(text, m, "range")))

\* recs, one record for each of the matches ms
LineRecords(text, ms) == [j \in 1..Len(ms) |-> LineRecord(text, ms[j])]

parse_normal_lines(text) == LineRecords(text, LineMatches(text))

(***************************************************************************)
(* parse_two_streams                                                       *)
(***************************************************************************)
\* [l.strip() for l in text.split("\n") if l.strip()]
NonEmptyLines(text) ==
  LET ls == SplitLines(text)
  IN SelectSeq([j \in 1..Len(ls) |-> Strip(ls[j])], LAMBDA l : l # <<>>)

CodeNamePattern ==
  Cat(<<Grp("code", CodeRe),
        Plus(Cls(Whitespace)),
        Grp("name", LazyPlus(NameClass)),
        Ahead(Alt(<<Cat(<<Plus(Cls(Whitespace)), CodeRe>>), EndOfString>>))>>)

CodeNameCaps == [code |-> NoSpan, name |-> NoSpan]

NumChars == Cls(Digits \cup {".", ","})

NumericValue ==
  Cat(<<Opt(Cls({">", "<"})),
        Star(Cls(Whitespace)),
        Plus(NumChars),
        Star(Cat(<<Star(Cls(Whitespace)),
                   Star(Cls({"x", "X", "^", "/", "-", "+", "*"})),
                   Star(Cls(Whitespace)),
                   Star(NumChars)>>)),
        Star(Cls(Whitespace)),
        Star(Cls(Letters \cup Digits \cup {"/", "%", "^", ".", "-"}))>>)

ValuePattern ==
  Cat(<<Grp("val",
            Cat(<<Alt(<<NumericValue,
                        Cat(<<WordBoundary, Lit("n"), Lit("e"), Lit("g"), WordBoundary>>),
                        Cat(<<Lit("p"), Lit("o"), Lit("z"), WordBoundary>>)>>),
                  LazyStar(NotCls({"(", "\n"}))>>)),
        Star(Cls(Whitespace)),
        ParenRange("rng")>>)

ValueCaps == [val |-> NoSpan, rng |-> NoSpan]

\* the <<code, name>> pairs of the matches ms in codes_names_line
CodeNamePairs(line, ms) ==
  [j \in 1..Len(ms) |->
     <<Strip(GroupOrEmpty(line, ms[j], "code")),
       normalize_spaces(GroupOrEmpty(line, ms[j], "name"))>>]

\* codes_names, given the non-empty lines
CodesNamesOf(lines) ==
  IF lines = <<>> THEN <<>>
  ELSE CodeNamePairs(lines[1], FindIter(CodeNamePattern, lines[1], CodeNameCaps))

\* codes_names: the <<code, name>> pairs of the first non-empty line
CodesNames(text) == CodesNamesOf(NonEmptyLines(text))

\* (val, rmin, rmax), r being <<rmin, rmax>>
ValueTriple(val, r) == <<val, r[1], r[2]>>

\* the <<val, rmin, rmax>> triples of the matches ms in values_blob
ValueTriples(blob, ms) ==
  [j \in 1..Len(ms) |->
     ValueTriple(normalize_spaces(GroupOrEmpty(blob, ms[j], "val")),
                 RangeOfValue(GroupOrEmpty(blob, ms[j], "rng")))]

\* values, given the non-empty lines
ValuesOf(lines) ==
  LET blob == JoinSpace(Tail(lines))
  IN IF lines = <<>> THEN <<>>
     ELSE ValueTriples(blob, FindIter(ValuePattern, blob, ValueCaps))

\* values: the <<val, rmin, rmax>> triples of the remaining lines, joined
Values(text) == ValuesOf(NonEmptyLines(text))

\* a pairing that keeps the surplus of the value stream at its head, not at
\* its tail: the names are paired with the last values
PairStreamsFromEnd(cn, vs) ==
  LET n == Min2(Len(cn), Len(vs))
  IN [j \in 1..n |->
        <<cn[j][1], cn[j][2], vs[Len(vs) - n + j][1], vs[Len(vs) - n + j][2],
          vs[Len(vs) - n + j][3]>>]

\* the pairing of the two streams by position
PairStreams(cn, vs) ==
  [j \in 1..Min2(Len(cn), Len(vs)) |-> <<cn[j][1], cn[j][2], vs[j][1], vs[j][2], vs[j][3]>>]

parse_two_streams(text) == PairStreams(CodesNames(text), Values(text))

(***************************************************************************)
(* regex_fallback_table                                                    *)
(***************************************************************************)
\* a table builder that runs both parsers and keeps the stream records
\* whenever there are any
regex_fallback_table_streams_first(text) ==
  LET second == parse_two_streams(text)
  IN [calls |-> <<"parse_normal_lines", "parse_two_streams">>,
      recs |-> IF second # <<>> THEN second ELSE parse_normal_lines(text)]

\* lines 172-176, first being what parse_normal_lines returned
LinesElseStreams(text, first) ==
  IF first # <<>> THEN [calls |-> <<"parse_normal_lines">>, recs |-> first]
  ELSE [calls |-> <<"parse_normal_lines", "parse_two_streams">>,
        recs |-> parse_two_streams(text)]

\* calls: the parsers run, in order; recs: the rows of the DataFrame returned
\* (every row has the five columns, so building the frame cannot fail)
regex_fallback_table(text) == LinesElseStreams(text, parse_normal_lines(text))

(***************************************************************************)
(* style_out_of_range                                                      *)
(***************************************************************************)
\* A cell is [isna, text]: pd.isna(x) and str(x).  A number is [kind, m, e]:
\* kind "num" with the value m / 10^e, or kind "None", or kind "NaN".
Cell(txt) == [isna |-> FALSE, text |-> txt]
NaCell == [isna |-> TRUE, text |-> <<>>]

NoneNum == [kind |-> "None", m |-> 0, e |-> 0]
NaNNum == [kind |-> "NaN", m |-> 0, e |-> 0]

DigitVal ==
  ("0" :> 0) @@ ("1" :> 1) @@ ("2" :> 2) @@ ("3" :> 3) @@ ("4" :> 4) @@
  ("5" :> 5) @@ ("6" :> 6) @@ ("7" :> 7) @@ ("8" :> 8) @@ ("9" :> 9)

RECURSIVE IntOf(_)
IntOf(ds) == IF ds = <<>> THEN 0 ELSE IntOf(SubSeq(ds, 1, Len(ds) - 1)) * 10 + DigitVal[ds[Len(ds)]]

RECURSIVE Pow10(_)
Pow10(n) == IF n = 0 THEN 1 ELSE 10 * Pow10(n - 1)

\* float(txt) for a txt that matches [-+]?\d*\.?\d+
Float(txt) ==
  LET neg == txt[1] = "-"
      body == IF txt[1] \in {"-", "+"} THEN Tail(txt) ELSE txt
      digs == SelectSeq(body, LAMBDA c : c \in Digits)
      dots == {p \in 1..Len(body) : body[p] = "."}
      frac == IF dots = {} THEN 0 ELSE Len(body) - Least(dots)
  IN [kind |-> "num", m |-> IF neg THEN 0 - IntOf(digs) ELSE IntOf(digs), e |-> frac]

\* a < b for two numbers of kind "num"
Less(a, b) == a.m * Pow10(b.e) < b.m * Pow10(a.e)

NumberRe ==
  Cat(<<Opt(Cls({"-", "+"})), Star(Cls(Digits)), Opt(Lit(".")), Plus(Cls(Digits))>>)

\* float(m.group(0)) if m else None
FloatOfMatch(s, m) == IF m.ok THEN Float(Slice(s, m.start, m.end)) ELSE NoneNum

\* lines 182-183, s being str(x) with its commas replaced
FirstNumber(s) == FloatOfMatch(s, Search(NumberRe, s, <<>>))

to_num(x) == IF x.isna THEN NoneNum ELSE FirstNumber(Replace(x.text, <<",">>, <<".">>))

\* the Series pandas makes of the results nums
InferDtype(nums) ==
  [j \in 1..Len(nums) |->
     IF nums[j].kind = "None" /\ (\E k \in 1..Len(nums) : nums[k].kind = "num")
     THEN NaNNum ELSE nums[j]]

\* Series.apply(to_num) over one column of cells: pandas infers the dtype
\* of the result, so a column whose results are all None keeps the Nones and
\* a column with at least one float holds NaN in place of each None
ApplyToNum(cells) == InferDtype([j \in 1..Len(cells) |-> to_num(cells[j])])

\* v < mn and v > mx on floats: false whenever a side is NaN
FloatLess(a, b) == a.kind = "num" /\ b.kind = "num" /\ Less(a, b)

\* v <= mn and v >= mx on floats
FloatLessEq(a, b) == a.kind = "num" /\ b.kind = "num" /\ ~Less(b, a)

\* row_style with the bounds themselves counted as out of range
row_style_inclusive(v, mn, mx) ==
  /\ v.kind # "None"
  /\ (mn.kind # "None" \/ mx.kind # "None")
  /\ \/ (mn.kind # "None" /\ FloatLessEq(v, mn))
     \/ (mx.kind # "None" /\ FloatLessEq(mx, v))

\* row_style: is the row given the background colour?
row_style(v, mn, mx) ==
  /\ v.kind # "None"
  /\ (mn.kind # "None" \/ mx.kind # "None")
  /\ \/ (mn.kind # "None" /\ FloatLess(v, mn))
     \/ (mx.kind # "None" /\ FloatLess(mx, v))

Column(rows, c) == [j \in 1..Len(rows) |-> rows[j][c]]

\* style_out_of_range of a frame whose rows are <<value, min, max>> cells:
\* one flag per row
style_out_of_range(rows) ==
  LET vals == ApplyToNum(Column(rows, 1))
      mins == ApplyToNum(Column(rows, 2))
      maxs == ApplyToNum(Column(rows, 3))
  IN [i \in 1..Len(rows) |-> row_style(vals[i], mins[i], maxs[i])]

\* the three styled columns of the frame regex_fallback_table returns
StyledColumns(recs) ==
  [j \in 1..Len(recs) |-> <<Cell(recs[j][3]), Cell(recs[j][4]), Cell(recs[j][5])>>]

(***************************************************************************)
(* json.loads (strict decoding of a str; the alphabet has no backslash)    *)
(***************************************************************************)
\* A decoded value is [kind, text, items]: kind is the Python type, text the
\* characters of a str or of a number or literal, items the members of a list
\* or the <<key, value>> pairs of a dict, in insertion order.
JValue(kind, text, items) == [kind |-> kind, text |-> text, items |-> items]

None == JValue("None", <<>>, <<>>)

JsonWs == {" ", "\t", "\n", "\r"}

\* characters a strict JSON string may not hold unescaped
ControlChars == {"\n", "\t", "\r"}

SkipWs(s, i) == i + RunLength(s, i, JsonWs)

CharAt(s, i) == IF i >= 1 /\ i <= Len(s) THEN s[i] ELSE ""

\* the outcome of a scan: ok, the position after the value, the value
Scanned(end, val) == [ok |-> TRUE, end |-> end, val |-> val]
ScanError == [ok |-> FALSE, end |-> 0, val |-> None]

\* NUMBER_RE: (-?(?:0|[1-9]\d*))(\.\d+)?([eE][-+]?\d+)?
JsonNumberRe ==
  Cat(<<Grp("int", Cat(<<Opt(Lit("-")),
                         Alt(<<Lit("0"),
                               Cat(<<Cls(Digits \ {"0"}), Star(Cls(Digits))>>)>>)>>)),
        Opt(Grp("frac", Cat(<<Lit("."), Plus(Cls(Digits))>>))),
        Opt(Grp("exp", Cat(<<Cls({"e", "E"}), Opt(Cls({"-", "+"})), Plus(Cls(Digits))>>)))>>)

JsonNumberCaps == [int |-> NoSpan, frac |-> NoSpan, exp |-> NoSpan]

\* the literals the scanner knows, in the order it tries them after numbers
JsonConstants ==
  <<[lit |-> <<"N", "a", "N">>, kind |-> "float"],
    [lit |-> <<"I", "n", "f", "i", "n", "i", "t", "y">>, kind |-> "float"],
    [lit |-> <<"-", "I", "n", "f", "i", "n", "i", "t", "y">>, kind |-> "float"]>>

JsonKeywords ==
  <<[lit |-> <<"n", "u", "l", "l">>, kind |-> "None"],
    [lit |-> <<"t", "r", "u", "e">>, kind |-> "bool"],
    [lit |-> <<"f", "a", "l", "s", "e">>, kind |-> "bool"]>>

\* the first literal of lits that s holds at i, or 0
LiteralAt(s, i, lits) ==
  LET hits == {j \in 1..Len(lits) : StartsWithAt(s, i, lits[j].lit)}
  IN IF hits = {} THEN 0 ELSE Least(hits)

\* scanstring from the character after the opening quote
scanstring(s, i) ==
  LET stops == {p \in i..Len(s) : s[p] \in ControlChars \cup {"\""}}
  IN IF stops = {} \/ s[Least(stops)] # "\"" THEN ScanError
     ELSE Scanned(Least(stops) + 1, JValue("str", Slice(s, i, Least(stops)), <<>>))

\* dict[key] = value
SetItem(items, key, value) ==
  IF \E j \in 1..Len(items) : items[j][1] = key
  THEN [j \in 1..Len(items) |-> IF items[j][1] = key THEN <<key, value>> ELSE items[j]]
  ELSE Append(items, <<key, value>>)

RECURSIVE scan_once(_, _)
RECURSIVE ObjectPairs(_, _, _)
RECURSIVE ArrayValues(_, _, _)

\* JSONObject's loop, i at the character after the opening quote of a key
ObjectPairs(s, i, items) ==
  LET key == scanstring(s, i)
      colon == SkipWs(s, key.end)
      value == scan_once(s, SkipWs(s, colon + 1))
      next == SkipWs(s, value.end)
      more == SkipWs(s, next + 1)
  IN IF ~key.ok \/ CharAt(s, colon) # ":" THEN ScanError
     ELSE IF ~value.ok THEN ScanError
     ELSE IF CharAt(s, next) = "}"
          THEN Scanned(next + 1, JValue("dict", <<>>, SetItem(items, key.val.text, value.val)))
     ELSE IF CharAt(s, next) # "," \/ CharAt(s, more) # "\"" THEN ScanError
     ELSE ObjectPairs(s, more + 1, SetItem(items, key.val.text, value.val))

\* JSONObject, i at the character after the brace
JSONObject(s, i) ==
  LET j == SkipWs(s, i)
  IN IF CharAt(s, j) = "}" THEN Scanned(j + 1, JValue("dict", <<>>, <<>>))
     ELSE IF CharAt(s, j) # "\"" THEN ScanError
     ELSE ObjectPairs(s, j + 1, <<>>)

\* JSONArray's loop, i at the first character of a value
ArrayValues(s, i, items) ==
  LET value == scan_once(s, i)
      next == SkipWs(s, value.end)
  IN IF ~value.ok THEN ScanError
     ELSE IF CharAt(s, next) = "]"
          THEN Scanned(next + 1, JValue("list", <<>>, Append(items, value.val)))
     ELSE IF CharAt(s, next) # "," THEN ScanError
     ELSE ArrayValues(s, SkipWs(s, next + 1), Append(items, value.val))

\* JSONArray, i at the character after the bracket
JSONArray(s, i) ==
  LET j == SkipWs(s, i)
  IN IF CharAt(s, j) = "]" THEN Scanned(j + 1, JValue("list", <<>>, <<>>))
     ELSE ArrayValues(s, j, <<>>)

\* the int or float of the match m of NUMBER_RE at i
NumberOf(s, i, m) ==
  Scanned(m.end,
          JValue(IF m.caps.frac = NoSpan /\ m.caps.exp = NoSpan THEN "int" ELSE "float",
                 Slice(s, i, m.end), <<>>))

NumberAt(s, i) == NumberOf(s, i, MatchAt(JsonNumberRe, s, i, JsonNumberCaps))

scan_once(s, i) ==
  LET c == CharAt(s, i)
      kw == LiteralAt(s, i, JsonKeywords)
      const == LiteralAt(s, i, JsonConstants)
  IN IF c = "" THEN ScanError
     ELSE IF c = "\"" THEN scanstring(s, i + 1)
     ELSE IF c = "{" THEN JSONObject(s, i + 1)
     ELSE IF c = "[" THEN JSONArray(s, i + 1)
     ELSE IF kw # 0
          THEN Scanned(i + Len(JsonKeywords[kw].lit),
                       JValue(JsonKeywords[kw].kind, JsonKeywords[kw].lit, <<>>))
     ELSE IF MatchTable(JsonNumberRe, s)[i] THEN NumberAt(s, i)
     ELSE IF const # 0
          THEN Scanned(i + Len(JsonConstants[const].lit),
                       JValue(JsonConstants[const].kind, JsonConstants[const].lit, <<>>))
     ELSE ScanError

\* the scan r if it succeeded and only whitespace follows it ("Extra data"
\* otherwise)
WholeOf(s, r) == IF r.ok /\ SkipWs(s, r.end) = Len(s) + 1 THEN r ELSE ScanError

\* json.loads(s): ok is false where it raises
json_loads(s) == WholeOf(s, scan_once(s, SkipWs(s, 1)))

(***************************************************************************)
(* extract_json_block                                                      *)
(***************************************************************************)
\* \{[\s\S]*\}\s*$ and \[[\s\S]*\]\s*$
BlockPattern(open, close) ==
  Cat(<<Lit(open), Star(Cls(Universe)), Lit(close), Star(Cls(Whitespace)), EndOfString>>)

\* lines 92-97: json.loads of the block m.group(0), if m is a match
LoadBlock(text, m) == IF m.ok THEN json_loads(Slice(text, m.start, m.end)) ELSE ScanError

\* the value json.loads gives for the block a pattern finds, if both succeed
BlockValue(text, open, close) == LoadBlock(text, Search(BlockPattern(open, close), text, <<>>))

\* return json.loads(...) unless it raises, and then go on to other
OrElse(r, other) == IF r.ok THEN r.val ELSE other

extract_json_block(text) ==
  IF text = <<>> THEN None
  ELSE OrElse(json_loads(text),
              OrElse(BlockValue(text, "{", "}"), OrElse(BlockValue(text, "[", "]"), None)))

(***************************************************************************)
(* State                                                                   *)
(***************************************************************************)
VARIABLES
  pc,        \* the step reached
  s,         \* normalize_spaces: the argument
  once,      \* normalize_spaces(s)
  twice,     \* normalize_spaces(normalize_spaces(s))
  fragment,  \* a reference range as written
  line_rng,  \* <<Min, Max>> of the record parse_normal_lines builds from it
  value_rng, \* <<Min, Max>> of the record parse_two_streams builds from it
  ocr_text,  \* the recognised text
  recs,      \* the records a parser returned
  spans,     \* the <<start, end>> in ocr_text of the match behind each record
  calls,     \* the parsers regex_fallback_table ran, in order
  rows,      \* style_out_of_range: the <<value, min, max>> cells of the frame
  flags,     \* style_out_of_range: is row i coloured?
  raw,       \* the text the language model generated
  data,      \* extract_json_block(raw)
  shown,     \* what the page shows, in order
  exports    \* the downloads the page offers, in order

normVars == <<s, once, twice>>
rangeVars == <<fragment, line_rng, value_rng>>
parseVars == <<ocr_text, recs, spans, calls>>
styleVars == <<rows, flags>>
jsonVars == <<raw, data>>
pageVars == <<shown, exports>>

vars == <<pc, normVars, rangeVars, parseVars, styleVars, jsonVars, pageVars>>

\* the variables a specification does not use stay at these values
NormIdle == s = <<>> /\ once = <<>> /\ twice = <<>>
RangeIdle == fragment = <<>> /\ line_rng = <<>> /\ value_rng = <<>>
ParseIdle == ocr_text = <<>> /\ recs = <<>> /\ spans = <<>> /\ calls = <<>>
StyleIdle == rows = <<>> /\ flags = <<>>
JsonIdle == raw = <<>> /\ data = None
PageIdle == shown = <<>> /\ exports = <<>>

\* the strings of at most n characters of cs
StringsUpTo(cs, n) == UNION {[1..k -> cs] : k \in 0..n}

(***************************************************************************)
(* normalize_spaces applied once and again                                 *)
(***************************************************************************)
MaxNormLen == 5

NormChars == {" ", "\n", ",", ".", "4", "0"}

InitNormalize ==
  /\ pc = "input"
  /\ s \in StringsUpTo(NormChars, MaxNormLen)
  /\ once = <<>> /\ twice = <<>>
  /\ RangeIdle /\ ParseIdle /\ StyleIdle /\ JsonIdle /\ PageIdle

Normalize ==
  /\ pc = "input"
  /\ once' = normalize_spaces(s)
  /\ pc' = "once"
  /\ UNCHANGED <<s, twice, rangeVars, parseVars, styleVars, jsonVars, pageVars>>

NormalizeAgain ==
  /\ pc = "once"
  /\ twice' = normalize_spaces(once)
  /\ pc' = "twice"
  /\ UNCHANGED <<s, once, rangeVars, parseVars, styleVars, jsonVars, pageVars>>

NextNormalize == Normalize \/ NormalizeAgain

SpecNormalize == InitNormalize /\ [][NextNormalize]_vars

\* C7: normalize_spaces is idempotent: normalising the normalised text gives
\* the normalised text again, for every input string.
C7_Idempotent == pc = "twice" => twice = once

\* C7's case: a string that normalising changed has been normalised twice
C7_Witness == pc = "twice" /\ once # s /\ once # <<>>

\* a digit, a separator and a digit with spaces before and/or after the
\* separator
IsSplitDecimal(str) ==
  /\ Len(str) >= 4
  /\ str[1] \in Digits /\ str[Len(str)] \in Digits
  /\ \E k \in 2..(Len(str) - 1) :
       /\ str[k] \in {",", "."}
       /\ \A j \in 2..(Len(str) - 1) : j # k => str[j] = " "

Unspaced(str) == SelectSeq(str, LAMBDA c : c # " ")

\* C8: the normalizer rewrites every digit, separator, digit sequence with
\* stray spaces around the separator so that the separator touches both
\* digits ("4 . 0" becomes "4.0").
C8_RepairsSplitDecimals == pc = "once" /\ IsSplitDecimal(s) => once = Unspaced(s)

\* C8's example: "4 . 0" has been normalised
C8_Example == pc = "once" /\ s = <<"4", " ", ".", " ", "0">>

(***************************************************************************)
(* The reference range of a record, through either parser                  *)
(***************************************************************************)
Chars2_8 == <<"2", ".", "8">>
Chars8_1 == <<"8", ".", "1">>
Chars202 == <<"2", "0", "2">>
Chars417 == <<"4", "1", "7">>

RangeNumbers == {Chars2_8, Chars8_1, Chars202, Chars417}

\* hyphen, en dash, em dash and tilde, as they stand in recognised text
DashGlyphs == {"-", "U2013", "U2014", "~"}

Spacing == {<<>>, <<" ">>}

Fragments ==
  [a : RangeNumbers, before : Spacing, glyph : DashGlyphs, after : Spacing,
   b : RangeNumbers]

FragmentText(f) == f.a \o f.before \o <<f.glyph>> \o f.after \o f.b

CodeAndName == <<"0", "3", "0", "8", "5", " ", "U", "r", "e", "a">>
ResultChars == <<"4", ".", "0">>

\* one record on one line, and the same record on a line of names and a
\* line of values
LineWith(f) == CodeAndName \o <<" ">> \o ResultChars \o <<" ", "(">> \o FragmentText(f) \o <<")">>
StreamsWith(f) == CodeAndName \o <<"\n">> \o ResultChars \o <<" ", "(">> \o FragmentText(f) \o <<")">>

\* <<Min, Max>> of the one record of rs
OnlyRange(rs) == IF Len(rs) = 1 THEN <<rs[1][4], rs[1][5]>> ELSE <<>>

InitRange ==
  /\ pc = "fragment"
  /\ fragment \in Fragments
  /\ line_rng = <<>> /\ value_rng = <<>>
  /\ NormIdle /\ ParseIdle /\ StyleIdle /\ JsonIdle /\ PageIdle

ParseRangeInLine ==
  /\ pc = "fragment"
  /\ line_rng' = OnlyRange(parse_normal_lines(LineWith(fragment)))
  /\ pc' = "line"
  /\ UNCHANGED <<fragment, value_rng, normVars, parseVars, styleVars, jsonVars, pageVars>>

ParseRangeInStreams ==
  /\ pc = "line"
  /\ value_rng' = OnlyRange(parse_two_streams(StreamsWith(fragment)))
  /\ pc' = "both"
  /\ UNCHANGED <<fragment, line_rng, normVars, parseVars, styleVars, jsonVars, pageVars>>

NextRange == ParseRangeInLine \/ ParseRangeInStreams

SpecRange == InitRange /\ [][NextRange]_vars

\* C5: for any two numeric tokens a and b, the fragment a <dash> b parses, in
\* both parsers, to (min, max) = (a, b) in written order, whichever of hyphen,
\* en dash, em dash or tilde the dash is and with or without spaces round it.
C5_GlyphsUnified ==
  pc = "both" => line_rng = <<fragment.a, fragment.b>> /\ value_rng = <<fragment.a, fragment.b>>

\* C5's case with the hyphen: a written minimum above the written maximum
\* has come out of both parsers in written order
C5_HyphenInOrder ==
  /\ pc = "both" /\ fragment.glyph = "-" /\ fragment.a = Chars417 /\ fragment.b = Chars202
  /\ line_rng = <<Chars417, Chars202>> /\ value_rng = <<Chars417, Chars202>>

(***************************************************************************)
(* The parsers and regex_fallback_table on recognised text                 *)
(***************************************************************************)
MaxToks == 3

\* the pieces recognised text is put together from
ParseTokens ==
  {CodeAndName,
   <<" ", "0", "3", "0", "7", "7", " ", "K", "y", "s">>,
   <<"\n">> \o ResultChars \o <<" ", "(", "2", ".", "8", "-", "8", ".", "1", ")">>,
   <<" ", "4", "4", "7">>}

RECURSIVE Concat(_)
Concat(parts) == IF parts = <<>> THEN <<>> ELSE parts[1] \o Concat(Tail(parts))

\* "03085 Urea 03077 Kyselina" and, on the next line, "4.0 (2.8-8.1) 447 (202-417)"
TwoStreamSample ==
  CodeAndName \o <<" ", "0", "3", "0", "7", "7", " ", "K", "y", "s", "e", "l", "i", "n", "a">>
  \o <<"\n">>
  \o ResultChars \o <<" ", "(", "2", ".", "8", "-", "8", ".", "1", ")">>
  \o <<" ", "4", "4", "7", " ", "(", "2", "0", "2", "-", "4", "1", "7", ")">>

ParseTexts ==
  {Concat(parts) : parts \in StringsUpTo(ParseTokens, MaxToks)} \cup {TwoStreamSample}

InitParse ==
  /\ pc = "text"
  /\ ocr_text \in ParseTexts
  /\ recs = <<>> /\ spans = <<>> /\ calls = <<>>
  /\ NormIdle /\ RangeIdle /\ StyleIdle /\ JsonIdle /\ PageIdle

\* the groups of each of the matches ms
SpansOf(ms) == [j \in 1..Len(ms) |-> ms[j].caps]

CallParseNormalLines ==
  /\ pc = "text"
  /\ recs' = parse_normal_lines(ocr_text)
  /\ spans' = SpansOf(LineMatches(ocr_text))
  /\ calls' = <<"parse_normal_lines">>
  /\ pc' = "lines"
  /\ UNCHANGED <<ocr_text, normVars, rangeVars, styleVars, jsonVars, pageVars>>

CallParseTwoStreams ==
  /\ pc = "text"
  /\ recs' = parse_two_streams(ocr_text)
  /\ calls' = <<"parse_two_streams">>
  /\ pc' = "streams"
  /\ UNCHANGED <<ocr_text, spans, normVars, rangeVars, styleVars, jsonVars, pageVars>>

ReturnTable(df) == recs' = df.recs /\ calls' = df.calls

CallRegexFallbackTable ==
  /\ pc = "text"
  /\ ReturnTable(regex_fallback_table(ocr_text))
  /\ pc' = "table"
  /\ UNCHANGED <<ocr_text, spans, normVars, rangeVars, styleVars, jsonVars, pageVars>>

NextParse == CallParseNormalLines \/ CallParseTwoStreams \/ CallRegexFallbackTable

SpecParse == InitParse /\ [][NextParse]_vars

\* C1: regex_fallback_table runs parse_normal_lines first and parse_two_streams
\* only when that returned no record; the table holds exactly the records of
\* parse_normal_lines when there are any, otherwise exactly those of
\* parse_two_streams, and it is the empty table when both return none.
C1_PrimaryThenStreams ==
  pc = "table" =>
    LET primary == parse_normal_lines(ocr_text)
    IN /\ calls[1] = "parse_normal_lines"
       /\ ("parse_two_streams" \in {calls[j] : j \in 1..Len(calls)}) = (primary = <<>>)
       /\ primary # <<>> => recs = primary
       /\ primary = <<>> => recs = parse_two_streams(ocr_text)

\* C1's cases: the stream parser was called and gave the table its records
C1_StreamsUsed == pc = "table" /\ Len(calls) = 2 /\ recs # <<>>

Rec(code, name, result, rmin, rmax) == <<code, name, result, rmin, rmax>>

SampleRecords ==
  <<Rec(<<"0", "3", "0", "8", "5">>, <<"U", "r", "e", "a">>, ResultChars, Chars2_8, Chars8_1),
    Rec(<<"0", "3", "0", "7", "7">>, <<"K", "y", "s", "e", "l", "i", "n", "a">>,
        <<"4", "4", "7">>, Chars202, Chars417)>>

\* C2: on the two-line sample parse_normal_lines yields no record and
\* parse_two_streams yields exactly the two records (03085, Urea, 4.0, 2.8,
\* 8.1) and (03077, Kyselina, 447, 202, 417).
C2_SampleFallsBack ==
  ocr_text = TwoStreamSample =>
    /\ pc = "lines" => recs = <<>>
    /\ pc = "streams" => recs = SampleRecords

\* C2's sample has been through parse_two_streams and came out as the two
\* records
C2_SampleStreams == ocr_text = TwoStreamSample /\ pc = "streams" /\ recs = SampleRecords

\* C6: parse_two_streams returns min(number of name pairs, number of value
\* pairs) records, the i-th made of the i-th name pair and the i-th value
\* pair; what the longer stream has beyond that is dropped.
C6_PairedByPosition ==
  pc = "streams" =>
    LET cn == CodesNames(ocr_text)
        vs == Values(ocr_text)
    IN /\ Len(recs) = Min2(Len(cn), Len(vs))
       /\ \A i \in 1..Len(recs) : recs[i] = Rec(cn[i][1], cn[i][2], vs[i][1], vs[i][2], vs[i][3])

\* C6's case: records were paired and the value stream was the longer
C6_SurplusDropped ==
  pc = "streams" /\ recs # <<>> /\ Len(Values(ocr_text)) > Len(CodesNames(ocr_text))

\* the number of the line that position p of text lies on
LineOf(text, p) == Cardinality({q \in 1..(p - 1) : text[q] = "\n"})

\* the positions a match's groups cover
GroupPositions(caps) ==
  UNION {caps.code[1]..(caps.code[2] - 1), caps.name[1]..(caps.name[2] - 1),
         caps.result[1]..(caps.result[2] - 1), caps.range[1]..(caps.range[2] - 1)}

\* C10: parse_normal_lines works line by line: the code, name, result and
\* range of every record come from one single line of the text.
C10_OneLinePerRecord ==
  pc = "lines" =>
    \A j \in 1..Len(spans) :
      \A p, q \in GroupPositions(spans[j]) :
        /\ ocr_text[p] # "\n"
        /\ LineOf(ocr_text, p) = LineOf(ocr_text, q)

\* C10's case: a text of two lines gave a record
C10_TwoLines ==
  pc = "lines" /\ recs # <<>> /\ \E p \in 1..Len(ocr_text) : ocr_text[p] = "\n"

(***************************************************************************)
(* style_out_of_range on a frame                                           *)
(***************************************************************************)
MaxValLen == 3

ValueChars == {"4", "7", ".", ",", "-"}

CharsNeg == <<"n", "e", "g">>

ValueCells ==
  {Cell(v) : v \in StringsUpTo(ValueChars, MaxValLen) \cup {CharsNeg}} \cup {NaCell}

MinCells == {Cell(<<"4", ".", "7">>), Cell(<<"7">>), Cell(<<>>), NaCell}
MaxCells == {Cell(<<"7", ".", "4">>), Cell(<<>>), NaCell}

\* the frame has the row alone, or the row and one more row whose three
\* cells all hold numbers
OtherRows == {<<>>, <<<<Cell(<<"4", "4", "7">>), Cell(Chars202), Cell(Chars417)>>>>}

InitStyle ==
  /\ pc = "frame"
  /\ \E v \in ValueCells, mn \in MinCells, mx \in MaxCells, others \in OtherRows :
       rows = <<<<v, mn, mx>>>> \o others
  /\ flags = <<>>
  /\ NormIdle /\ RangeIdle /\ ParseIdle /\ JsonIdle /\ PageIdle

StyleOutOfRange ==
  /\ pc = "frame"
  /\ flags' = style_out_of_range(rows)
  /\ pc' = "styled"
  /\ UNCHANGED <<rows, normVars, rangeVars, parseVars, jsonVars, pageVars>>

NextStyle == StyleOutOfRange

SpecStyle == InitStyle /\ [][NextStyle]_vars

\* a cell holds a number: it is not missing and its text has a digit
IsNumeric(c) == ~c.isna /\ \E p \in 1..Len(c.text) : c.text[p] \in Digits

\* C4: style_out_of_range flags a row if and only if its value is numeric, at
\* least one of its bounds is numeric, and the value is below a numeric
\* minimum or above a numeric maximum; a row whose value is not numeric, or
\* that has no numeric bound, is never flagged.
C4_FlaggedIffOutOfRange ==
  pc = "styled" =>
    \A i \in 1..Len(rows) :
      LET v == rows[i][1]
          mn == rows[i][2]
          mx == rows[i][3]
      IN flags[i] =
           (/\ IsNumeric(v)
            /\ (IsNumeric(mn) \/ IsNumeric(mx))
            /\ \/ (IsNumeric(mn) /\ Less(to_num(v), to_num(mn)))
               \/ (IsNumeric(mx) /\ Less(to_num(mx), to_num(v))))

\* C4's case: a row with a missing minimum, in a frame whose column of minima
\* holds numbers, is flagged for being above its maximum
C4_FlaggedAboveMax ==
  pc = "styled" /\ Len(rows) = 2 /\ flags[1] /\ rows[1][2] = NaCell

(***************************************************************************)
(* extract_json_block on generated text                                    *)
(***************************************************************************)
MaxRawToks == 3

KeyK1 == <<"\"", "k", "\"", ":", "1">>

\* the pieces generated text is put together from
RawTokens ==
  {<<"{">>, <<"}">>, <<"[">>, <<"]">>, KeyK1, <<"1">>, <<"n", "u", "l", "l">>,
   <<"x", " ">>, <<"\n">>}

RawTexts == {Concat(parts) : parts \in StringsUpTo(RawTokens, MaxRawToks)}

InitJson ==
  /\ pc = "raw"
  /\ raw \in RawTexts
  /\ data = None
  /\ NormIdle /\ RangeIdle /\ ParseIdle /\ StyleIdle /\ PageIdle

ExtractJsonBlock ==
  /\ pc = "raw"
  /\ data' = extract_json_block(raw)
  /\ pc' = "extracted"
  /\ UNCHANGED <<raw, normVars, rangeVars, parseVars, styleVars, pageVars>>

NextJson == ExtractJsonBlock

SpecJson == InitJson /\ [][NextJson]_vars

\* C9: extract_json_block returns a dict or a list when decoding succeeds,
\* directly or from a trailing block, and None otherwise; it returns no other
\* kind of value.
C9_DictListOrNone == pc = "extracted" => data.kind \in {"dict", "list", "None"}

\* C9's case: a dict was decoded from a block that follows other text
C9_TrailingBlock ==
  pc = "extracted" /\ data.kind = "dict" /\ raw[1] = "x"

(***************************************************************************)
(* The handler of the extraction button                                    *)
(***************************************************************************)
\* the key of the lab results and the styled columns, as the source file
\* spells them
LabKey ==
  <<"L", "a", "b", "o", "r", "a", "t", "o", "r", "n", "U221A", "U2260", " ",
    "v", "U221A", "U03A9", "s", "l", "e", "d", "k", "y">>
ResultColumn == <<"V", "U221A", "U03A9", "s", "l", "e", "d", "e", "k">>
MinColumn == <<"M", "i", "n">>
MaxColumn == <<"M", "a", "x">>

StyledColumnNames == {ResultColumn, MinColumn, MaxColumn}

Keys(d) == {d.items[j][1] : j \in 1..Len(d.items)}

\* d[key], for a key of the dict d
Get(d, key) == d.items[CHOOSE j \in 1..Len(d.items) : d.items[j][1] = key][2]

\* isinstance(data, dict) and <key> in data and isinstance(data[<key>], list)
HasLabList(d) == d.kind = "dict" /\ LabKey \in Keys(d) /\ Get(d, LabKey).kind = "list"

\* pd.DataFrame(lab).empty: no row, or no column
FrameEmpty(lab) == \A j \in 1..Len(lab.items) : lab.items[j].kind \in {"dict", "list"} /\ lab.items[j].items = <<>>

\* what becomes of the lab table of a decoded result: it is "absent", it is
\* "shown", or building or styling its frame "raises".  A frame is built from
\* dicts, one per row; style_out_of_range raises KeyError when one of the
\* three columns it reads is in no row, and pd.isna of a list is an array,
\* whose truth value may raise.
LabTableOutcomes(d) ==
  IF ~HasLabList(d) THEN {"absent"}
  ELSE LET lab == Get(d, LabKey)
           dicts == \A j \in 1..Len(lab.items) : lab.items[j].kind = "dict"
           columns == UNION {Keys(lab.items[j]) : j \in 1..Len(lab.items)}
           listCell == \E j \in 1..Len(lab.items) : \E k \in 1..Len(lab.items[j].items) :
                         /\ lab.items[j].items[k][1] \in StyledColumnNames
                         /\ lab.items[j].items[k][2].kind = "list"
       IN IF FrameEmpty(lab) THEN {"absent"}
          ELSE IF ~dicts \/ ~(StyledColumnNames \subseteq columns) THEN {"raises"}
          ELSE IF listCell THEN {"shown", "raises"}
          ELSE {"shown"}

Widget(name, arg) == [widget |-> name, arg |-> arg]
Download(file, arg) == [file |-> file, arg |-> arg]

\* a handler that takes the regex path for every result that is not a dict
UseFallbackUnlessDict(d) == d.kind # "dict"

\* if data is None
UseFallback(d) == d = None

MaxOutToks == 2

Quoted(chars) == <<"\"">> \o chars \o <<"\"">>

LabOutput(list) == <<"{">> \o Quoted(LabKey) \o <<":">> \o list \o <<"}">>

Field(key, value) == Quoted(key) \o <<":">> \o value

\* generated texts that hold lab results
LabOutputs ==
  {LabOutput(<<"[", "{">> \o Field(ResultColumn, Quoted(<<"4", "4", "7">>)) \o <<",">>
             \o Field(MinColumn, Quoted(Chars202)) \o <<",">>
             \o Field(MaxColumn, Quoted(Chars417)) \o <<"}", "]">>),
   LabOutput(<<"[", "{">> \o Field(ResultColumn, <<"[", "1", ",", "1", "]">>) \o <<",">>
             \o Field(MinColumn, Quoted(<<>>)) \o <<",">>
             \o Field(MaxColumn, Quoted(<<>>)) \o <<"}", "]">>),
   LabOutput(<<"[", "{">> \o Field(MinColumn, Quoted(Chars202)) \o <<"}", "]">>),
   LabOutput(<<"[", "1", "]">>),
   LabOutput(<<"[", "{", "}", "]">>),
   LabOutput(<<"[", "]">>),
   LabOutput(<<"n", "u", "l", "l">>)}

ModelOutputs ==
  {Concat(parts) : parts \in StringsUpTo(RawTokens, MaxOutToks)} \cup LabOutputs

\* no text; a code and name over a result; the same with a range and a
\* second result after it
TextOfOneRecord == CodeAndName \o <<"\n">> \o ResultChars

RecognisedTexts ==
  {<<>>, TextOfOneRecord,
   TextOfOneRecord \o <<" ", "(", "2", ".", "8", "-", "8", ".", "1", ")", " ", "4", "4", "7">>}

InitHandler ==
  /\ pc = "page"
  /\ ocr_text \in RecognisedTexts
  /\ raw \in ModelOutputs
  /\ data = None
  /\ recs = <<>> /\ spans = <<>> /\ calls = <<>>
  /\ StyleIdle /\ PageIdle /\ NormIdle /\ RangeIdle

\* lines 272-282: the regex table, its CSV and the raw text
ShowFallback(df) ==
  /\ recs' = df.recs
  /\ calls' = df.calls
  /\ rows' = StyledColumns(df.recs)
  /\ flags' = style_out_of_range(rows')
  /\ shown' = <<Widget("error", "")>>
               \o (IF df.recs = <<>> THEN <<>>
                   ELSE <<Widget("subheader", "regex"), Widget("dataframe", "df_fallback")>>)
               \o <<Widget("code", "raw")>>
  /\ exports' = IF df.recs = <<>> THEN <<>>
                ELSE <<Download("lab_results.csv", "df_fallback")>>
  /\ pc' = "done"

\* lines 284-301: the decoded result, its lab table and the JSON download
ShowJson(d) ==
  \E outcome \in LabTableOutcomes(d) :
    /\ shown' = <<Widget("success", ""), Widget("json", "data")>>
                \o (IF outcome = "absent" THEN <<>> ELSE <<Widget("subheader", "json")>>)
                \o (IF outcome = "shown" THEN <<Widget("dataframe", "df")>> ELSE <<>>)
    /\ exports' = (IF outcome = "shown" THEN <<Download("lab_results.csv", "df")>> ELSE <<>>)
                  \o (IF outcome = "raises" THEN <<>>
                      ELSE <<Download("structured_medical.json", "data")>>)
    /\ pc' = IF outcome = "raises" THEN "raised" ELSE "done"
    /\ UNCHANGED <<recs, calls, rows, flags>>

\* lines 267-301: one run of the script with the button pressed
ExtractButton ==
  /\ pc = "page"
  /\ data' = extract_json_block(raw)
  /\ IF UseFallback(data') THEN ShowFallback(regex_fallback_table(ocr_text))
     ELSE ShowJson(data')
  /\ UNCHANGED <<raw, ocr_text, spans, normVars, rangeVars>>

NextHandler == ExtractButton

SpecHandler == InitHandler /\ [][NextHandler]_vars

Args(seq) == {seq[j].arg : j \in 1..Len(seq)}

====
